---- MODULE Spec2Model ----
(***************************************************************************)
(* Model of mkdocs_with_pdf/toc.py: the header collector                   *)
(* (_collect_headers), the order injector (_inject_heading_order) and the  *)
(* TOC builder (make_indexes).                                             *)
(*                                                                         *)
(* The document (soup) is the sequence of the children of <body>.  An      *)
(* element is a record [name, id, cls, href, text, contents]; a string     *)
(* node has name "" (bs4 gives it no tag name) and carries its text.       *)
(* A _HeaderTree object lives in an arena (nodes): a node is               *)
(* [element, subheaders] where element is the position of the heading in   *)
(* the body (0 for None) and subheaders is a sequence of node numbers, so  *)
(* that two references to one object are one node number.                  *)
(***************************************************************************)
EXTENDS Integers, Sequences, FiniteSets, TLC

VARIABLES
    soup,         \* the document: [body |-> children of <body>]
    source,       \* the document as it was handed to the program
    options,      \* the Options object
    warnings,     \* messages passed to options.logger.warning, in order
    pc,           \* position of the run, or the exception that ended it
    start_level,  \* local of the stage / argument of _collect_headers
    stop_level,   \* local of the stage / argument of _collect_headers
    tree,         \* the collection in progress or last returned
    order_tree,   \* top_headers of _inject_heading_order
    calls         \* arguments of the calls of _collect_headers made so far

vars == <<soup, source, options, warnings, pc, start_level, stop_level, tree,
          order_tree, calls>>

(* ---------------------------------------------------------------------- *)
(* Program constant and the bounds of the model                            *)
(* ---------------------------------------------------------------------- *)

_MAX_HEADER_LEVEL == 6

\* longest document scanned in SpecCollect
MaxHeaders == 3

\* longest document handed to make_indexes in Spec
MaxDocLen == 2

\* largest configured toc_level / ordered_chapter_level
MaxOptLevel == 7

(* ---------------------------------------------------------------------- *)
(* Elements of the document                                                *)
(* ---------------------------------------------------------------------- *)

NewTag(name, id, cls, href, contents) ==
    [name |-> name, id |-> id, cls |-> cls, href |-> href, text |-> "",
     contents |-> contents]

NewString(s) ==
    [name |-> "", id |-> "", cls |-> "", href |-> "", text |-> s,
     contents |-> <<>>]

\* f'h{i + 1}'
HeaderName(i) == "h" \o ToString(i + 1)

\* the tag names of the headings, by level
HeaderNames == [i \in 0..(_MAX_HEADER_LEVEL - 1) |-> HeaderName(i)]

\* int(h.name[1:]) - 1
HeaderLevel(h) == CHOOSE i \in DOMAIN HeaderNames : HeaderNames[i] = h.name

\* soup.find_all([f'h{i + 1}' for i in range(start_level, stop_level)]):
\* does the query for the window return this element?
InWindow(el, s, e) ==
    \E i \in s..(e - 1) : i \in DOMAIN HeaderNames /\ HeaderNames[i] = el.name

RECURSIVE FindAllFrom(_, _, _, _)
FindAllFrom(body, k, s, e) ==
    IF k > Len(body) THEN <<>>
    ELSE (IF InWindow(body[k], s, e) THEN <<k>> ELSE <<>>)
             \o FindAllFrom(body, k + 1, s, e)

\* positions in the body of the headings the query returns, in document order
FindAll(sp, s, e) == FindAllFrom(sp.body, 1, s, e)

(* ---------------------------------------------------------------------- *)
(* _is_exclude                                                             *)
(* ---------------------------------------------------------------------- *)

_is_exclude(url, opts) ==
    IF url = "" THEN FALSE
    ELSE IF url \in opts.excludes_children THEN TRUE
    ELSE FALSE

(* ---------------------------------------------------------------------- *)
(* _set_list_elements with end = None; a Python list is a function on      *)
(* 0..len-1                                                                *)
(* ---------------------------------------------------------------------- *)

\* off by one: the first slot below the heading's level keeps its value
_set_list_elements_late(l, value, start) ==
    [i \in DOMAIN l |-> IF i >= start + 1 THEN value ELSE l[i]]

\* off by one the other way: the slot of the heading's own level is reset too
_set_list_elements_early(l, value, start) ==
    [i \in DOMAIN l |-> IF i >= start - 1 THEN value ELSE l[i]]

_set_list_elements(l, value, start) ==
    [i \in DOMAIN l |-> IF i >= start THEN value ELSE l[i]]

(* ---------------------------------------------------------------------- *)
(* _collect_headers                                                        *)
(* ---------------------------------------------------------------------- *)

_HeaderTree(element) == [element |-> element, subheaders |-> <<>>]

\* the child put in front: parent_header.subheaders.insert(0, child)
InsertSubheader(nodes, parent, child) ==
    [nodes EXCEPT ![parent].subheaders = <<child>> \o @]

\* parent_header.subheaders.append(child)
AppendSubheader(nodes, parent, child) ==
    [nodes EXCEPT ![parent].subheaders = Append(@, child)]

\* state of one call before its loop: top_headers = [], header_levels =
\* [None] * stop_level, exclude_levels = [False] * stop_level
NewCollection(s, e) ==
    [nodes |-> <<>>,
     top_headers |-> <<>>,
     header_levels |-> [i \in 0..(e - 1) |-> 0],
     exclude_levels |-> [i \in 0..(e - 1) |-> FALSE],
     failed |-> FALSE]

\* the two assertions at the head of _collect_headers
WindowAsserts(s, e) ==
    /\ 0 <= s /\ s < e
    /\ 0 < e /\ e <= _MAX_HEADER_LEVEL

RECURSIVE AddSkippedLevels(_, _, _, _)

\* every placeholder appended to the top-level list
AddSkippedLevelsTop(c, i, level, s) ==
    IF i >= level \/ c.failed THEN c
    ELSE IF c.header_levels[i] # 0 THEN AddSkippedLevels(c, i + 1, level, s)
    ELSE LET missed == Len(c.nodes) + 1
             c1 == [c EXCEPT !.nodes = Append(@, _HeaderTree(0)),
                             !.top_headers = Append(@, missed),
                             !.header_levels[i] = missed]
         IN  AddSkippedLevels(c1, i + 1, level, s)

\* no placeholder below the top level: the slot of a skipped level takes the
\* node of the level above
AddSkippedLevelsReuse(c, i, level, s) ==
    IF i >= level \/ c.failed THEN c
    ELSE IF c.header_levels[i] # 0 THEN AddSkippedLevels(c, i + 1, level, s)
    ELSE IF i = s
         THEN LET missed == Len(c.nodes) + 1
              IN  AddSkippedLevels(
                      [c EXCEPT !.nodes = Append(@, _HeaderTree(0)),
                                !.top_headers = Append(@, missed),
                                !.header_levels[i] = missed],
                      i + 1, level, s)
         ELSE AddSkippedLevels(
                  [c EXCEPT !.header_levels[i] = c.header_levels[i - 1]],
                  i + 1, level, s)

\* the range taken one level too far: range(start_level, level + 1)
AddSkippedLevelsDeep(c, i, level, s) ==
    IF i > level \/ c.failed THEN c
    ELSE IF c.header_levels[i] # 0 THEN AddSkippedLevels(c, i + 1, level, s)
    ELSE LET missed == Len(c.nodes) + 1
             c1 == [c EXCEPT !.nodes = Append(@, _HeaderTree(0))]
             c2 == IF i = s
                   THEN [c1 EXCEPT !.top_headers = Append(@, missed)]
                   ELSE IF c1.header_levels[i - 1] = 0
                        THEN [c1 EXCEPT !.failed = TRUE]
                        ELSE [c1 EXCEPT !.nodes =
                                 AppendSubheader(@, c1.header_levels[i - 1], missed)]
             c3 == [c2 EXCEPT !.header_levels[i] = missed]
         IN  AddSkippedLevels(c3, i + 1, level, s)

\* "Add skipped levels": for i in range(start_level, level)
AddSkippedLevels(c, i, level, s) ==
    IF i >= level \/ c.failed THEN c
    ELSE IF c.header_levels[i] # 0 THEN AddSkippedLevels(c, i + 1, level, s)
    ELSE LET missed == Len(c.nodes) + 1
             c1 == [c EXCEPT !.nodes = Append(@, _HeaderTree(0))]
             c2 == IF i = s
                   THEN [c1 EXCEPT !.top_headers = Append(@, missed)]
                   ELSE IF c1.header_levels[i - 1] = 0
                        THEN [c1 EXCEPT !.failed = TRUE]
                        ELSE [c1 EXCEPT !.nodes =
                                 AppendSubheader(@, c1.header_levels[i - 1], missed)]
             c3 == [c2 EXCEPT !.header_levels[i] = missed]
         IN  AddSkippedLevels(c3, i + 1, level, s)

\* the heading's own flag counted with those of the shallower levels
SkipsHeaderOwn(exclude_levels, level) ==
    \E k \in 0..level : exclude_levels[k]

\* any(exclude_levels[:level]): do the flags of the shallower levels make the
\* loop skip the heading?
SkipsHeader(exclude_levels, level) ==
    \E k \in 0..(level - 1) : exclude_levels[k]

\* one iteration of "for h in html_headers"; k is the position of h in the body
CollectHeader(c, k, h, s, opts) ==
    LET level == HeaderLevel(h)
        ex1 == [c.exclude_levels EXCEPT ![level] = _is_exclude(h.id, opts)]
        ex2 == _set_list_elements(ex1, FALSE, level + 1)
        cx == [c EXCEPT !.exclude_levels = ex2]
    IN  IF SkipsHeader(ex2, level) THEN cx
        ELSE
          LET header == Len(cx.nodes) + 1
              c0 == [cx EXCEPT !.nodes = Append(@, _HeaderTree(k))]
              c1 == IF level = s
                    THEN [c0 EXCEPT !.top_headers = Append(@, header)]
                    ELSE LET cb == IF c0.header_levels[level - 1] = 0
                                   THEN AddSkippedLevels(c0, s, level, s)
                                   ELSE c0
                             parent_header == cb.header_levels[level - 1]
                         IN  IF cb.failed \/ parent_header = 0
                             THEN [cb EXCEPT !.failed = TRUE]
                             ELSE [cb EXCEPT !.nodes =
                                      AppendSubheader(@, parent_header, header)]
          IN  IF c1.failed THEN c1
              ELSE [c1 EXCEPT !.header_levels =
                       _set_list_elements(
                           [c1.header_levels EXCEPT ![level] = header],
                           0, level + 1)]

RECURSIVE CollectLoop(_, _, _, _, _, _)
CollectLoop(c, body, hs, j, s, opts) ==
    IF j > Len(hs) \/ c.failed THEN c
    ELSE CollectLoop(CollectHeader(c, hs[j], body[hs[j]], s, opts),
                     body, hs, j + 1, s, opts)

\* the whole call: the forest it returns, or failed when an assertion fails
_collect_headers(sp, opts, s, e) ==
    IF ~WindowAsserts(s, e)
    THEN [NewCollection(0, 0) EXCEPT !.failed = TRUE]
    ELSE CollectLoop(NewCollection(s, e), sp.body, FindAll(sp, s, e), 1, s, opts)

(* ---------------------------------------------------------------------- *)
(* _inject_heading_order                                                   *)
(* ---------------------------------------------------------------------- *)

\* 1 if options.ignore_top_header else 0
StartLevel(opts) == IF opts.ignore_top_header THEN 1 ELSE 0

\* '.'.join(str(n) for n in prefix)
RECURSIVE JoinDots(_)
JoinDots(prefix) ==
    IF prefix = <<>> THEN ""
    ELSE IF Len(prefix) = 1 THEN ToString(prefix[1])
    ELSE ToString(prefix[1]) \o "." \o JoinDots(Tail(prefix))

\* nm_tag: <span class="pdf-order">prefix_str + ' '</span>
OrderTag(prefix_str) ==
    NewTag("span", "", "pdf-order", "", <<NewString(prefix_str \o " ")>>)

\* the marker put in place of the heading
InsertInPlace(body, k, el) == [body EXCEPT ![k] = el]

\* the marker put last: header.element.append(nm_tag)
InsertLast(body, k, el) == [body EXCEPT ![k].contents = @ \o <<el>>]

\* header.element.insert(0, nm_tag)
InsertFirst(body, k, el) == [body EXCEPT ![k].contents = <<el>> \o @]

\* st is [body, warnings, error]: the document, the log and the exception
\* raised so far ("" for none)
RECURSIVE inject_order(_, _, _, _)
RECURSIVE InjectOrderFrom(_, _, _, _, _)

\* siblings numbered from 0
InjectOrderFromZero(st, nodes, headers, j, numbers_prefix) ==
    IF j > Len(headers) \/ st.error # "" THEN st
    ELSE LET header == nodes[headers[j]]
             i == j - 1
             prefix == numbers_prefix \o <<i>>
             prefix_str == JoinDots(prefix)
             st1 == IF header.element # 0
                    THEN [st EXCEPT !.body =
                             InsertFirst(@, header.element, OrderTag(prefix_str))]
                    ELSE [st EXCEPT !.warnings = Append(@,
                             "Assigned number for a missed header " \o prefix_str)]
             st2 == IF Len(header.subheaders) > 0
                    THEN inject_order(st1, nodes, header.subheaders, prefix)
                    ELSE st1
         IN  InjectOrderFrom(st2, nodes, headers, j + 1, numbers_prefix)

\* the loop "for i, header in enumerate(headers)" from position j (= i + 1)
InjectOrderFrom(st, nodes, headers, j, numbers_prefix) ==
    IF j > Len(headers) \/ st.error # "" THEN st
    ELSE LET header == nodes[headers[j]]
             i == j - 1
             prefix == numbers_prefix \o <<i + 1>>
             prefix_str == JoinDots(prefix)
             st1 == IF header.element # 0
                    THEN [st EXCEPT !.body =
                             InsertFirst(@, header.element, OrderTag(prefix_str))]
                    ELSE [st EXCEPT !.warnings = Append(@,
                             "Assigned number for a missed header " \o prefix_str)]
             st2 == IF Len(header.subheaders) > 0
                    THEN inject_order(st1, nodes, header.subheaders, prefix)
                    ELSE st1
         IN  InjectOrderFrom(st2, nodes, headers, j + 1, numbers_prefix)

inject_order(st, nodes, headers, numbers_prefix) ==
    IF ~(Len(numbers_prefix) < _MAX_HEADER_LEVEL)
    THEN [st EXCEPT !.error = "AssertionError"]
    ELSE InjectOrderFrom(st, nodes, headers, 1, numbers_prefix)

\* the clamp forgotten
ClampStopNone(stop) == stop

\* clamped one level too low
ClampStopLow(stop) ==
    IF stop > _MAX_HEADER_LEVEL THEN _MAX_HEADER_LEVEL - 1 ELSE stop

\* the stop level a stage uses: the configured one, at most _MAX_HEADER_LEVEL
ClampStop(stop) == IF stop > _MAX_HEADER_LEVEL THEN _MAX_HEADER_LEVEL ELSE stop

\* "<" written for "<="
StageDisabledStrict(start, stop) == stop < start

\* is the stage switched off: "if stop_level <= start_level: return"
StageDisabled(start, stop) == stop <= start

\* the message of the clamp warning (the back quotes around the option name
\* are left out)
ClampWarning(option, stop) ==
    "Ignore " \o option \o " value " \o ToString(stop)
        \o ". Use max possible " \o ToString(_MAX_HEADER_LEVEL) \o " instead"

\* the clamp made silently
LogClampSilent(log, option, stop) == log

\* the log after the clamp test of a stage
LogClamp(log, option, stop) ==
    IF stop > _MAX_HEADER_LEVEL THEN Append(log, ClampWarning(option, stop))
    ELSE log

\* the whole of _inject_heading_order: the document, the log, the exception,
\* the locals and the forest it collected
_inject_heading_order(sp, opts, log) ==
    LET start == StartLevel(opts)
        stop0 == opts.ordered_chapter_level
    IN  IF StageDisabled(start, stop0)
        THEN [body |-> sp.body, warnings |-> log, error |-> "",
              start_level |-> start, stop_level |-> stop0,
              top_headers |-> NewCollection(0, 0),
              calls |-> <<>>]
        ELSE LET log1 == LogClamp(log, "ordered_chapter_level", stop0)
                 stop == ClampStop(stop0)
                 t == _collect_headers(sp, opts, start, stop)
                 st0 == [body |-> sp.body, warnings |-> log1, error |-> ""]
                 st == IF t.failed THEN [st0 EXCEPT !.error = "AssertionError"]
                       ELSE inject_order(st0, t.nodes, t.top_headers, <<>>)
             IN  [body |-> st.body, warnings |-> st.warnings, error |-> st.error,
                  start_level |-> start, stop_level |-> stop,
                  top_headers |-> t,
                  calls |-> <<<<start, stop>>>>]

(* ---------------------------------------------------------------------- *)
(* make_indexes, step 2: the table of contents                             *)
(* ---------------------------------------------------------------------- *)

\* utils.soup_util.clone_element: a copy of the fragment and of all it holds
RECURSIVE clone_element(_)
clone_element(el) ==
    IF el.name = "" THEN NewString(el.text)
    ELSE NewTag(el.name, el.id, el.cls, el.href,
                [i \in DOMAIN el.contents |-> clone_element(el.contents[i])])

\* the loop "for el in h.contents" of make_link from fragment j on; a is the
\* contents of the link so far.  Appending el.contents[0] to the link takes it
\* out of el, its parent in the heading.
RECURSIVE LinkContents(_, _, _, _)
LinkContents(st, k, j, a) ==
    IF st.error # "" \/ j > Len(st.body[k].contents) THEN [st |-> st, a |-> a]
    ELSE LET el == st.body[k].contents[j]
         IN  IF el.name = "a"
             THEN IF el.contents = <<>>
                  THEN [st |-> [st EXCEPT !.error = "IndexError"], a |-> a]
                  ELSE LinkContents(
                           [st EXCEPT !.body[k].contents[j].contents = Tail(@)],
                           k, j + 1, Append(a, el.contents[1]))
             ELSE LinkContents(st, k, j + 1, Append(a, clone_element(el)))

\* make_link(h) for the heading at body position k: the document and the <li>
make_link(st, k) ==
    LET ref == st.body[k].id
        r == LinkContents(st, k, 1, <<>>)
        a == NewTag("a", "", "", "#" \o ref, r.a)
    IN  [st |-> r.st, li |-> NewTag("li", "", "", "", <<a>>)]

RECURSIVE create_toc(_, _, _)
RECURSIVE CreateTocFrom(_, _, _, _, _)

\* the loop "for header in headers" from position j on; items are the <li>
\* appended to ul_tag so far
CreateTocFrom(st, nodes, headers, j, items) ==
    IF st.error # "" \/ j > Len(headers) THEN [st |-> st, items |-> items]
    ELSE LET header == nodes[headers[j]]
             r1 == IF header.element # 0
                   THEN make_link(st, header.element)
                   ELSE [st |-> [st EXCEPT !.warnings =
                                    Append(@, "Adding missed header to TOC")],
                         li |-> NewTag("li", "", "", "", <<>>)]
             r2 == IF Len(header.subheaders) > 0 /\ r1.st.error = ""
                   THEN create_toc(r1.st, nodes, header.subheaders)
                   ELSE [st |-> r1.st, ul |-> <<>>]
             link_tag == IF Len(header.subheaders) > 0
                         THEN [r1.li EXCEPT !.contents = Append(@, r2.ul)]
                         ELSE r1.li
         IN  CreateTocFrom(r2.st, nodes, headers, j + 1, Append(items, link_tag))

\* create_toc(headers, parent): the document and the <ul> appended to parent
create_toc(st, nodes, headers) ==
    LET r == CreateTocFrom(st, nodes, headers, 1, <<>>)
    IN  [st |-> r.st, ul |-> NewTag("ul", "", "", "", r.items)]

\* <article id="doc-toc"><h1>toc_title</h1> ul </article>
TocArticle(opts, ul) ==
    NewTag("article", "doc-toc", "", "",
           <<NewTag("h1", "", "", "", <<NewString(opts.toc_title)>>), ul>>)

\* soup.body.insert(0, toc)
InsertToc(body, toc) == <<toc>> \o body

\* step 2 of make_indexes
GenerateToc(sp, opts, log) ==
    LET start == StartLevel(opts)
        stop0 == opts.toc_level
    IN  IF StageDisabled(start, stop0)
        THEN [body |-> sp.body, warnings |-> log, error |-> "",
              start_level |-> start, stop_level |-> stop0,
              top_headers |-> NewCollection(0, 0),
              calls |-> <<>>]
        ELSE LET log1 == LogClamp(log, "toc_level", stop0)
                 stop == ClampStop(stop0)
                 t == _collect_headers(sp, opts, start, stop)
                 st0 == [body |-> sp.body, warnings |-> log1, error |-> ""]
                 r == IF t.failed
                      THEN [st |-> [st0 EXCEPT !.error = "AssertionError"],
                            ul |-> <<>>]
                      ELSE create_toc(st0, t.nodes, t.top_headers)
             IN  [body |-> IF r.st.error = ""
                           THEN InsertToc(r.st.body, TocArticle(opts, r.ul))
                           ELSE r.st.body,
                  warnings |-> r.st.warnings, error |-> r.st.error,
                  start_level |-> start, stop_level |-> stop,
                  top_headers |-> t,
                  calls |-> <<<<start, stop>>>>]

(* ---------------------------------------------------------------------- *)
(* Inputs                                                                  *)
(* ---------------------------------------------------------------------- *)

\* anchor ids of the headings: "" is a heading without id
Ids == {"", "a"}

\* the configured exclude sets
ExcludeSets == {{}, {"a"}}

Levels == 0..(_MAX_HEADER_LEVEL - 1)

NewHeader(level, id, contents) == NewTag(HeaderName(level), id, "", "", contents)

\* headings with plain text content
TextHeaders ==
    {NewHeader(l, id, <<NewString("T")>>) : l \in Levels, id \in Ids}

NoForest == NewCollection(0, 0)

(* ---------------------------------------------------------------------- *)
(* SpecCollect: one call of _collect_headers, one heading of the document  *)
(* per step, and inject_order on the forest it returns                     *)
(* ---------------------------------------------------------------------- *)

InitCollect ==
    /\ soup = [body |-> <<>>]
    /\ source = soup
    /\ order_tree = NoForest
    /\ calls = <<>>
    /\ options \in [ignore_top_header : {FALSE},
                    toc_level : {0},
                    ordered_chapter_level : {0},
                    toc_title : {"Contents"},
                    excludes_children : ExcludeSets]
    /\ warnings = <<>>
    /\ pc = "call"
    /\ start_level \in 0.._MAX_HEADER_LEVEL
    /\ stop_level \in 0..(_MAX_HEADER_LEVEL + 1)
    /\ tree = NoForest

\* entry of _collect_headers: the assertions and the initial lists
CollectEnter ==
    /\ pc = "call"
    /\ IF WindowAsserts(start_level, stop_level)
       THEN /\ pc' = "loop"
            /\ tree' = NewCollection(start_level, stop_level)
       ELSE /\ pc' = "AssertionError"
            /\ tree' = [tree EXCEPT !.failed = TRUE]
    /\ calls' = Append(calls, <<start_level, stop_level>>)
    /\ UNCHANGED <<soup, source, options, warnings, start_level, stop_level,
                   order_tree>>

\* the scan reaches the next heading of the document; the loop body runs
\* when the query for the window returns it
CollectNext ==
    /\ pc = "loop"
    /\ Len(soup.body) < MaxHeaders
    /\ \E h \in TextHeaders :
         LET k == Len(soup.body) + 1
             t == IF InWindow(h, start_level, stop_level)
                  THEN CollectHeader(tree, k, h, start_level, options)
                  ELSE tree
         IN  /\ soup' = [soup EXCEPT !.body = Append(@, h)]
             /\ source' = soup'
             /\ tree' = t
             /\ pc' = IF t.failed THEN "AssertionError" ELSE "loop"
    /\ UNCHANGED <<options, warnings, start_level, stop_level, order_tree, calls>>

\* return top_headers
CollectReturn ==
    /\ pc = "loop"
    /\ pc' = "returned"
    /\ UNCHANGED <<soup, source, options, warnings, start_level, stop_level, tree,
                   order_tree, calls>>

\* inject_order(top_headers) on the forest returned, as in
\* _inject_heading_order
InjectOrder ==
    /\ pc = "returned"
    /\ \E st \in {inject_order([body |-> soup.body, warnings |-> warnings,
                                error |-> ""],
                               tree.nodes, tree.top_headers, <<>>)} :
           /\ soup' = [soup EXCEPT !.body = st.body]
           /\ warnings' = st.warnings
           /\ pc' = IF st.error # "" THEN st.error ELSE "numbered"
    /\ order_tree' = tree
    /\ UNCHANGED <<source, options, start_level, stop_level, tree, calls>>

NextCollect == CollectEnter \/ CollectNext \/ CollectReturn \/ InjectOrder

SpecCollect == InitCollect /\ [][NextCollect]_vars


(* ---------------------------------------------------------------------- *)
(* Spec: one run of make_indexes on a document                             *)
(* ---------------------------------------------------------------------- *)

Link(contents) == NewTag("a", "", "", "page.html", contents)

\* id and inline content of the headings of the documents of Spec: plain
\* text with an id, text between a link of one and a link of two fragments,
\* and an empty link
HeaderKinds ==
    { <<"a", <<NewString("T")>>>>,
      <<"", <<Link(<<NewString("U")>>), NewString("T"),
             Link(<<NewString("V"), NewString("W")>>)>>>>,
      <<"", <<Link(<<>>)>>>> }

\* levels of the headings of the documents of Spec: h1, h2 (the first level
\* seen with ignore_top_header) and h6 (the deepest level, reached only by
\* skipping levels)
DocLevels == {0, 1, _MAX_HEADER_LEVEL - 1}

DocHeaders == {NewHeader(l, kd[1], kd[2]) : l \in DocLevels, kd \in HeaderKinds}

SeqsUpTo(S, n) == UNION {[1..m -> S] : m \in 0..n}

\* the configured values of toc_level and ordered_chapter_level
OptLevels == (-1)..MaxOptLevel

Init ==
    /\ source \in [body : SeqsUpTo(DocHeaders, MaxDocLen)]
    /\ soup = source
    /\ options \in [ignore_top_header : BOOLEAN,
                    toc_level : OptLevels,
                    ordered_chapter_level : OptLevels,
                    toc_title : {"Contents"},
                    excludes_children : ExcludeSets]
    /\ warnings = <<>>
    /\ pc = "start"
    /\ start_level = 0
    /\ stop_level = 0
    /\ tree = NoForest
    /\ order_tree = NoForest
    /\ calls = <<>>

\* step 1 of make_indexes: _inject_heading_order(soup, options)
InjectHeadingOrder ==
    /\ pc = "start"
    /\ \E r \in {_inject_heading_order(soup, options, warnings)} :
           /\ soup' = [soup EXCEPT !.body = r.body]
           /\ warnings' = r.warnings
           /\ pc' = IF r.error # "" THEN r.error ELSE "injected"
           /\ start_level' = r.start_level
           /\ stop_level' = r.stop_level
           /\ tree' = r.top_headers
           /\ order_tree' = r.top_headers
           /\ calls' = calls \o r.calls
    /\ UNCHANGED <<source, options>>

\* step 2 of make_indexes, up to its return
GenerateTocPage ==
    /\ pc = "injected"
    /\ \E r \in {GenerateToc(soup, options, warnings)} :
           /\ soup' = [soup EXCEPT !.body = r.body]
           /\ warnings' = r.warnings
           /\ pc' = IF r.error # "" THEN r.error ELSE "done"
           /\ start_level' = r.start_level
           /\ stop_level' = r.stop_level
           /\ tree' = r.top_headers
           /\ calls' = calls \o r.calls
    /\ UNCHANGED <<source, options, order_tree>>

Next == InjectHeadingOrder \/ GenerateTocPage

Spec == Init /\ [][Next]_vars

(* ---------------------------------------------------------------------- *)
(* Reading a forest                                                        *)
(* ---------------------------------------------------------------------- *)

\* node numbers in depth-first pre-order, starting from a list of nodes
RECURSIVE Preorder(_, _)
Preorder(nodes, ids) ==
    IF ids = <<>> THEN <<>>
    ELSE <<Head(ids)>> \o Preorder(nodes, nodes[Head(ids)].subheaders)
                       \o Preorder(nodes, Tail(ids))

ForestNodes(t) == Preorder(t.nodes, t.top_headers)

\* how many nodes of the walk w of forest t have the heading at body position
\* k as element
Occurrences(t, w, k) ==
    Cardinality({j \in 1..Len(w) : t.nodes[w[j]].element = k})

Placeholders(t) ==
    LET w == ForestNodes(t)
    IN  {j \in 1..Len(w) : t.nodes[w[j]].element = 0}

\* the headings of the document seen through the window, by body position
Seen(k) == InWindow(soup.body[k], start_level, stop_level)

IsExcluded(k) == soup.body[k].id \in options.excludes_children

\* an excluded heading of the window at a shallower level, the most recent
\* one at its level, not superseded by a later heading of the window at the
\* same or a shallower level
HasExcludedAncestor(k) ==
    \E i \in 1..(k - 1) :
        /\ Seen(i) /\ IsExcluded(i)
        /\ HeaderLevel(soup.body[i]) < HeaderLevel(soup.body[k])
        /\ \A m \in (i + 1)..(k - 1) :
              Seen(m) => HeaderLevel(soup.body[m]) > HeaderLevel(soup.body[i])

Names(body) == [k \in 1..Len(body) |-> body[k].name]

(* ---------------------------------------------------------------------- *)
(* C1                                                                      *)
(* ---------------------------------------------------------------------- *)

\* C1: in the forest _collect_headers returns, every heading of the window
\* whose id is not excluded and which has no excluded ancestor is the element
\* of exactly one node.
C1_IncludedExactlyOnce ==
    pc = "returned" =>
        LET w == ForestNodes(tree)
        IN  \A k \in 1..Len(soup.body) :
                (Seen(k) /\ ~IsExcluded(k) /\ ~HasExcludedAncestor(k))
                    => Occurrences(tree, w, k) = 1

\* a returned forest holding an included heading below a placeholder, from a
\* document that also has a heading under an excluded one
C1_Witness ==
    /\ pc = "returned"
    /\ Placeholders(tree) # {}
    /\ \E k \in 1..Len(soup.body) :
          Seen(k) /\ ~IsExcluded(k) /\ ~HasExcludedAncestor(k)
              /\ Occurrences(tree, ForestNodes(tree), k) = 1
    /\ \E k \in 1..Len(soup.body) : Seen(k) /\ HasExcludedAncestor(k)

(* ---------------------------------------------------------------------- *)
(* C2                                                                      *)
(* ---------------------------------------------------------------------- *)

\* the document h1, h2 (excluded), h3 scanned with the window [0,6)
ExclusionScenario ==
    /\ Names(soup.body) = <<"h1", "h2", "h3">>
    /\ ~IsExcluded(1) /\ IsExcluded(2) /\ ~IsExcluded(3)
    /\ start_level = 0 /\ stop_level = 6

\* C2 as stated: an excluded heading and every heading nested under it appear
\* zero times in the returned forest; in the scenario the node of the h1 has
\* no children.
C2_ExcludedHeadingAbsent ==
    pc = "returned" =>
        /\ \A k \in 1..Len(soup.body) :
              (Seen(k) /\ (IsExcluded(k) \/ HasExcludedAncestor(k)))
                  => Occurrences(tree, ForestNodes(tree), k) = 0
        /\ ExclusionScenario =>
              /\ Len(tree.top_headers) = 1
              /\ tree.nodes[tree.top_headers[1]].subheaders = <<>>

\* C2: exclusion covers the headings nested under an excluded heading, not
\* the excluded heading itself: a heading with an excluded ancestor appears
\* zero times, an excluded heading without excluded ancestor appears exactly
\* once; in the scenario the h3 is absent and the h1's only child is the h2,
\* which has no children.
C2_ExcludedChildrenAbsent ==
    pc = "returned" =>
        /\ LET w == ForestNodes(tree)
           IN  \A k \in 1..Len(soup.body) :
                  /\ (Seen(k) /\ HasExcludedAncestor(k))
                        => Occurrences(tree, w, k) = 0
                  /\ (Seen(k) /\ IsExcluded(k) /\ ~HasExcludedAncestor(k))
                        => Occurrences(tree, w, k) = 1
        /\ ExclusionScenario =>
              /\ Len(tree.top_headers) = 1
              /\ Len(tree.nodes) = 2
              /\ LET top == tree.nodes[tree.top_headers[1]]
                 IN  /\ top.element = 1
                     /\ Len(top.subheaders) = 1
                     /\ tree.nodes[top.subheaders[1]] =
                            [element |-> 2, subheaders |-> <<>>]

C2_Witness == pc = "returned" /\ ExclusionScenario

(* ---------------------------------------------------------------------- *)
(* C3                                                                      *)
(* ---------------------------------------------------------------------- *)

\* the step scans a heading of the window that is kept, lies below the start
\* level and finds its parent slot unset
BackfillStep ==
    /\ pc = "loop"
    /\ Len(soup'.body) = Len(soup.body) + 1
    /\ LET h == soup'.body[Len(soup'.body)]
           level == HeaderLevel(h)
       IN  /\ InWindow(h, start_level, stop_level)
           /\ ~SkipsHeader(tree'.exclude_levels, level)
           /\ level > start_level
           /\ tree.header_levels[level - 1] = 0

LastOf(seq) == seq[Len(seq)]

\* what the step must do with the unset levels of [start_level, level - 1]
BackfillEffect ==
    LET k == Len(soup'.body)
        level == HeaderLevel(soup'.body[k])
        unset == {i \in start_level..(level - 1) : tree.header_levels[i] = 0}
        old == 1..Len(tree.nodes)
        new == (Len(tree.nodes) + 1)..Len(tree'.nodes)
        slot(i) == tree'.header_levels[i]
    IN  /\ ~tree'.failed
        /\ Cardinality(new) = Cardinality(unset) + 1
        /\ Cardinality({n \in new : tree'.nodes[n].element = 0})
               = Cardinality(unset)
        /\ \A i \in start_level..(level - 1) :
              IF i \in unset
              THEN /\ slot(i) \in new
                   /\ tree'.nodes[slot(i)].element = 0
                   /\ Len(tree'.nodes[slot(i)].subheaders) = 1
                   /\ \A j \in unset : j # i => slot(j) # slot(i)
                   /\ IF i = start_level
                      THEN /\ tree'.top_headers = Append(tree.top_headers, slot(i))
                      ELSE /\ slot(i - 1) # 0
                           /\ LastOf(tree'.nodes[slot(i - 1)].subheaders) = slot(i)
                           /\ (i - 1) \notin unset =>
                                 /\ slot(i - 1) \in old
                                 /\ tree'.nodes[slot(i - 1)].subheaders =
                                       Append(tree.nodes[slot(i - 1)].subheaders,
                                              slot(i))
              ELSE slot(i) = tree.header_levels[i]
        /\ (level - 1) \in unset
        /\ tree'.nodes[slot(level - 1)].subheaders = <<slot(level)>>
        /\ slot(level) \in new
        /\ tree'.nodes[slot(level)] = [element |-> k, subheaders |-> <<>>]
        /\ start_level \notin unset => tree'.top_headers = tree.top_headers
        /\ \A n \in old :
              (\A i \in start_level..(level - 1) : n # slot(i))
                  => tree'.nodes[n] = tree.nodes[n]

\* the document h1, h4 scanned with the window [0,6), nothing excluded
SkipScenario ==
    /\ Names(soup.body) = <<"h1", "h4">>
    /\ ~IsExcluded(1)
    /\ start_level = 0 /\ stop_level = 6

\* the forest is the single chain h1 - placeholder - placeholder - h4
SkipScenarioForest ==
    /\ Len(tree.nodes) = 4
    /\ Len(tree.top_headers) = 1
    /\ Cardinality(Placeholders(tree)) = 2
    /\ LET n1 == tree.top_headers[1]
       IN  /\ tree.nodes[n1].element = 1
           /\ Len(tree.nodes[n1].subheaders) = 1
           /\ LET n2 == tree.nodes[n1].subheaders[1]
              IN  /\ tree.nodes[n2].element = 0
                  /\ Len(tree.nodes[n2].subheaders) = 1
                  /\ LET n3 == tree.nodes[n2].subheaders[1]
                     IN  /\ tree.nodes[n3].element = 0
                         /\ Len(tree.nodes[n3].subheaders) = 1
                         /\ tree.nodes[tree.nodes[n3].subheaders[1]] =
                               [element |-> 2, subheaders |-> <<>>]

\* C3: a kept heading at level L > s whose parent slot is unset gets exactly
\* one placeholder for each unset level of [s, L-1], chained parent to child
\* from the existing node above (or from the top-level list), and is attached
\* under the deepest one; the document h1, h4 gives the chain h1, two
\* placeholders, h4.
C3_SkipFilling ==
    /\ [][BackfillStep => BackfillEffect]_vars
    /\ []((pc = "returned" /\ SkipScenario) => SkipScenarioForest)

C3_Witness == pc = "returned" /\ SkipScenario /\ SkipScenarioForest

(* ---------------------------------------------------------------------- *)
(* C4                                                                      *)
(* ---------------------------------------------------------------------- *)

PositionIn(seq, n) == CHOOSE j \in 1..Len(seq) : seq[j] = n

IsTop(t, n) == \E j \in 1..Len(t.top_headers) : t.top_headers[j] = n

ParentOf(t, n) ==
    CHOOSE p \in 1..Len(t.nodes) :
        \E j \in 1..Len(t.nodes[p].subheaders) : t.nodes[p].subheaders[j] = n

\* the 1-based sibling indexes on the path from the top-level list to node n
RECURSIVE PathTo(_, _)
PathTo(t, n) ==
    IF IsTop(t, n) THEN <<PositionIn(t.top_headers, n)>>
    ELSE LET p == ParentOf(t, n)
         IN  Append(PathTo(t, p), PositionIn(t.nodes[p].subheaders, n))

\* the indexes of a path written in decimal and joined with "."
RECURSIVE Dotted(_)
Dotted(path) ==
    IF Len(path) = 1 THEN ToString(path[1])
    ELSE Dotted(SubSeq(path, 1, Len(path) - 1)) \o "." \o ToString(path[Len(path)])

RealNodes(t) == {n \in 1..Len(t.nodes) : t.nodes[n].element # 0}

\* the text of the numbering marker at the head of the heading at position k
MarkerText(body, k) ==
    IF /\ Len(body[k].contents) > 0
       /\ body[k].contents[1].name = "span"
       /\ body[k].contents[1].cls = "pdf-order"
       /\ Len(body[k].contents[1].contents) = 1
    THEN body[k].contents[1].contents[1].text
    ELSE "(none)"

\* the node that is the second child of the first top-level node
SecondOfFirst(t) == t.nodes[t.top_headers[1]].subheaders[2]

HasSecondOfFirst(t) ==
    /\ Len(t.top_headers) >= 1
    /\ Len(t.nodes[t.top_headers[1]].subheaders) >= 2

\* C4: after inject_order every real heading of the numbering
\* forest starts with the marker whose label joins with "." the 1-based
\* sibling indexes on the path from its top-level ancestor to its node, the
\* indexes of placeholders on the path included; the second child of the
\* first top-level node gets "1.2"; a placeholder gets a warning, no label.
C4_Numbering ==
    pc \in {"numbered", "injected"} =>
        /\ \A n \in 1..Len(order_tree.nodes) :
              order_tree.nodes[n].element # 0 =>
                  MarkerText(soup.body, order_tree.nodes[n].element)
                      = Dotted(PathTo(order_tree, n)) \o " "
        /\ (HasSecondOfFirst(order_tree)
               /\ order_tree.nodes[SecondOfFirst(order_tree)].element # 0)
              => MarkerText(soup.body,
                            order_tree.nodes[SecondOfFirst(order_tree)].element)
                     = "1.2 "
        /\ \A n \in 1..Len(order_tree.nodes) :
              order_tree.nodes[n].element = 0 =>
                  \E w \in 1..Len(warnings) :
                      warnings[w] = "Assigned number for a missed header "
                                       \o Dotted(PathTo(order_tree, n))

\* a numbered document whose first top-level heading has a placeholder as
\* first child and a real heading, labelled 1.2, as second child
C4_Witness ==
    /\ pc = "numbered"
    /\ start_level = 0
    /\ HasSecondOfFirst(order_tree)
    /\ order_tree.nodes[order_tree.nodes[order_tree.top_headers[1]]
                            .subheaders[1]].element = 0
    /\ order_tree.nodes[SecondOfFirst(order_tree)].element # 0
    /\ MarkerText(soup.body, order_tree.nodes[SecondOfFirst(order_tree)].element)
           = "1.2 "

(* ---------------------------------------------------------------------- *)
(* Reading the table of contents                                           *)
(* ---------------------------------------------------------------------- *)

\* has step 2 been configured to build a table of contents
TocEnabled == options.toc_level > StartLevel(options)

OrderEnabled == options.ordered_chapter_level > StartLevel(options)

\* the inline fragments of a heading with every link among them replaced by
\* the fragments inside the link
RECURSIVE Unwrapped(_)
Unwrapped(contents) ==
    IF contents = <<>> THEN <<>>
    ELSE (IF Head(contents).name = "a" THEN Head(contents).contents
          ELSE <<Head(contents)>>) \o Unwrapped(Tail(contents))

\* is the heading at position k of the source a real node of the forest
IsRealIn(t, k) == \E n \in RealNodes(t) : t.nodes[n].element = k

NodeOf(t, k) == CHOOSE n \in RealNodes(t) : t.nodes[n].element = k

\* the numbering marker of the heading at position k of the source
MarkerOf(k) ==
    NewTag("span", "", "pdf-order", "",
           <<NewString(Dotted(PathTo(order_tree, NodeOf(order_tree, k))) \o " ")>>)

\* the inline content of heading k when step 2 starts: the marker, if the
\* heading was numbered, and the content the heading had in the source
ContentBeforeToc(k) ==
    (IF IsRealIn(order_tree, k) THEN <<MarkerOf(k)>> ELSE <<>>)
        \o source.body[k].contents

\* the inserted container, when there is one
HasTocArticle(body) ==
    /\ Len(body) > 0
    /\ body[1].name = "article"
    /\ body[1].id = "doc-toc"

\* the <li> of the table of contents at the place of a forest path
RECURSIVE ItemAt(_, _)
ItemAt(ul, path) ==
    IF Len(path) = 1 THEN ul.contents[path[1]]
    ELSE ItemAt(LastOf(ul.contents[path[1]].contents), Tail(path))

TocList == soup.body[1].contents[2]

(* ---------------------------------------------------------------------- *)
(* C5                                                                      *)
(* ---------------------------------------------------------------------- *)

\* C5: order injection runs before the table of contents is built: in a
\* finished run, for every heading that is a real node of the numbering
\* forest and of the TOC forest, the content of its TOC link is a copy of the
\* heading's numbering marker followed by the heading's original inline
\* content (a link inside the heading giving its content).
C5_TocLinkStartsWithMarker ==
    (pc = "done" /\ TocEnabled) =>
        \A n \in RealNodes(tree) :
            LET k == tree.nodes[n].element
                li == ItemAt(TocList, PathTo(tree, n))
            IN  IsRealIn(order_tree, k) =>
                    /\ Len(li.contents) >= 1
                    /\ li.contents[1].name = "a"
                    /\ li.contents[1].contents =
                           <<MarkerOf(k)>> \o Unwrapped(source.body[k].contents)

(* ---------------------------------------------------------------------- *)
(* C6                                                                      *)
(* ---------------------------------------------------------------------- *)

RECURSIVE MirrorList(_, _)

\* the list item the claim describes for node n of the TOC forest
MirrorItem(t, n) ==
    LET k == t.nodes[n].element
        link == IF k = 0 THEN <<>>
                ELSE <<NewTag("a", "", "", "#" \o source.body[k].id,
                              Unwrapped(ContentBeforeToc(k)))>>
        nested == IF t.nodes[n].subheaders = <<>> THEN <<>>
                  ELSE <<MirrorList(t, t.nodes[n].subheaders)>>
    IN  NewTag("li", "", "", "", link \o nested)

\* one list for a sequence of nodes, one item per node, in order
MirrorList(t, ids) ==
    NewTag("ul", "", "", "", [j \in 1..Len(ids) |-> MirrorItem(t, ids[j])])

\* C6: when step 2 is enabled, create_toc emits one list per children
\* sequence and one item per node of the TOC forest, in the same order and
\* nesting; the item of a real node holds one link to "#" + id whose content
\* is a copy of the heading's inline content (a link inside the heading
\* giving its content); the item of a placeholder holds no link; the list of
\* a node's children is nested in its item.
C6_TocMirrorsForest ==
    (pc \notin {"start", "injected"} /\ TocEnabled) =>
        /\ pc = "done"
        /\ HasTocArticle(soup.body)
        /\ TocList = MirrorList(tree, tree.top_headers)

(* ---------------------------------------------------------------------- *)
(* C7                                                                      *)
(* ---------------------------------------------------------------------- *)

\* C7: when toc_level <= start level (1 with ignore_top_header, else 0),
\* step 2 returns without inserting a TOC container and leaves the document
\* as order injection left it.
C7_WindowDisable ==
    [][(pc = "injected"
           /\ options.toc_level <= (IF options.ignore_top_header THEN 1 ELSE 0))
          => (pc' = "done" /\ soup' = soup /\ ~HasTocArticle(soup'.body))]_vars

\* a finished run with the TOC disabled on a document that order injection
\* has numbered
C7_Witness ==
    /\ pc = "done"
    /\ options.toc_level <= (IF options.ignore_top_header THEN 1 ELSE 0)
    /\ soup # source
    /\ RealNodes(order_tree) # {}
    /\ ~HasTocArticle(soup.body)

(* ---------------------------------------------------------------------- *)
(* C8                                                                      *)
(* ---------------------------------------------------------------------- *)

ClampMessage(option, stop) ==
    "Ignore " \o option \o " value " \o ToString(stop)
        \o ". Use max possible 6 instead"

\* the log of a stage run with stop level 6, with the clamp warning put in
\* front of what the stage logs
WithClampWarning(log, log6, msg) ==
    log \o <<msg>> \o SubSeq(log6, Len(log) + 1, Len(log6))

\* the numbering stage with ordered_chapter_level > 6 against the stage with 6
ClampedInjection ==
    (pc = "start" /\ options.ordered_chapter_level > 6) =>
        LET r6 == _inject_heading_order(
                      soup, [options EXCEPT !.ordered_chapter_level = 6], warnings)
        IN  /\ soup'.body = r6.body
            /\ order_tree' = r6.top_headers
            /\ pc' = (IF r6.error # "" THEN r6.error ELSE "injected")
            /\ warnings' = WithClampWarning(warnings, r6.warnings,
                   ClampMessage("ordered_chapter_level",
                                options.ordered_chapter_level))

\* the TOC stage with toc_level > 6 against the stage with 6
ClampedToc ==
    (pc = "injected" /\ options.toc_level > 6) =>
        LET r6 == GenerateToc(soup, [options EXCEPT !.toc_level = 6], warnings)
        IN  /\ soup'.body = r6.body
            /\ tree' = r6.top_headers
            /\ pc' = (IF r6.error # "" THEN r6.error ELSE "done")
            /\ warnings' = WithClampWarning(warnings, r6.warnings,
                   ClampMessage("toc_level", options.toc_level))

\* C8: with a configured stop level above 6 a stage gives the forest, the
\* labels, the TOC and the outcome it gives with stop level 6, and logs one
\* clamp warning more.
C8_Clamping == [][ClampedInjection /\ ClampedToc]_vars

IsClampWarning(w) ==
    \E o \in {"ordered_chapter_level", "toc_level"} :
        \E v \in OptLevels : w = ClampMessage(o, v)

\* a finished run with both stop levels above 6 on a document with an h6:
\* the h6 is numbered and listed, and two clamp warnings are logged
C8_Witness ==
    /\ pc = "done"
    /\ options.ordered_chapter_level > 6 /\ options.toc_level > 6
    /\ \E k \in 1..Len(source.body) :
          /\ source.body[k].name = "h6"
          /\ IsRealIn(order_tree, k) /\ IsRealIn(tree, k)
    /\ HasTocArticle(soup.body)
    /\ Cardinality({w \in 1..Len(warnings) : IsClampWarning(warnings[w])}) = 2

(* ---------------------------------------------------------------------- *)
(* C9                                                                      *)
(* ---------------------------------------------------------------------- *)

\* C9 as stated: a stage whose stop level is not greater than its start
\* level does nothing and reports a warning, and no run ends in an error
\* caused by the configuration.
C9_DisabledStageWarns ==
    /\ (pc = "injected" /\ ~OrderEnabled) => (soup = source /\ warnings # <<>>)
    /\ (pc = "done" /\ ~OrderEnabled /\ ~TocEnabled)
          => (soup = source /\ warnings # <<>>)
    /\ pc # "AssertionError"

HasEmptyLink(h) ==
    \E j \in 1..Len(h.contents) :
        h.contents[j].name = "a" /\ h.contents[j].contents = <<>>

\* C9: a stage whose stop level is not greater than its start level does
\* nothing and reports no warning; a stage whose stop level exceeds 6 reports
\* the clamp warning; a stage with a stop level from start + 1 to 6 reports
\* no configuration warning; no run ends in an assertion failure, and a run
\* ends in an error only on a document with a heading holding an empty link.
C9_DisabledStageSilent ==
    /\ [][/\ (pc = "start" /\ ~OrderEnabled)
               => (pc' = "injected" /\ soup' = soup /\ warnings' = warnings)
          /\ (pc = "injected" /\ ~TocEnabled)
               => (pc' = "done" /\ soup' = soup /\ warnings' = warnings)
          /\ (pc = "start" /\ OrderEnabled)
               => ((options.ordered_chapter_level > 6)
                     <=> (\E w \in 1..Len(warnings') : IsClampWarning(warnings'[w])))
          /\ (pc = "injected" /\ TocEnabled)
               => ((options.toc_level > 6)
                     <=> (\E w \in (Len(warnings) + 1)..Len(warnings') :
                             IsClampWarning(warnings'[w])))]_vars
    /\ [](pc # "AssertionError")
    /\ [](pc \notin {"start", "injected", "done"} =>
             \E k \in 1..Len(source.body) : HasEmptyLink(source.body[k]))

\* a finished run with both stages disabled: nothing changed, nothing logged
C9_Witness ==
    /\ pc = "done"
    /\ ~OrderEnabled /\ ~TocEnabled
    /\ source.body # <<>>
    /\ soup = source
    /\ warnings = <<>>

(* ---------------------------------------------------------------------- *)
(* C10                                                                     *)
(* ---------------------------------------------------------------------- *)

\* C10: no run of make_indexes ends in an assertion failure (of the window,
\* of the parent lookups or of the length of the numbering prefix), and every
\* call of _collect_headers gets a window with 0 <= start < stop <= 6.
C10_NoAssertionFails ==
    /\ pc # "AssertionError"
    /\ ~tree.failed /\ ~order_tree.failed
    /\ \A c \in 1..Len(calls) :
          /\ 0 <= calls[c][1]
          /\ calls[c][1] < calls[c][2]
          /\ calls[c][2] <= 6

\* a finished run with both stop levels above 6 and ignore_top_header unset
\* on a document whose h6 got a label of six components
C10_Witness ==
    /\ pc = "done"
    /\ Len(calls) = 2
    /\ options.ordered_chapter_level > 6 /\ options.toc_level > 6
    /\ \E k \in 1..Len(source.body) :
          /\ IsRealIn(order_tree, k)
          /\ Len(PathTo(order_tree, NodeOf(order_tree, k))) = 6
    /\ Placeholders(tree) # {}

(* ---------------------------------------------------------------------- *)
(* C11                                                                     *)
(* ---------------------------------------------------------------------- *)

\* every window that passes the assertions of _collect_headers
Windows ==
    {w \in (0..(_MAX_HEADER_LEVEL - 1)) \X (1.._MAX_HEADER_LEVEL) : w[1] < w[2]}

\* the headings of a document as the collector reads them: tag name and id
Headings(body) == [k \in 1..Len(body) |-> <<body[k].name, body[k].id>>]

\* a step of the scan: the entry, one heading read, or the return
ScanStep == pc \in {"call", "loop"}

\* C11: the forest a call returns is the one a second collection of the same
\* document, window and exclude set gives (same shape, same elements, same
\* slots); no step of the scan changes a heading of the document; and after
\* inject_order has numbered the document, collecting any window gives the
\* forest that window gives on the document as it was before.
C11_CollectionPure ==
    /\ []((pc = "returned") =>
             tree = _collect_headers(soup, options, start_level, stop_level))
    /\ [][ScanStep =>
             SubSeq(soup'.body, 1, Len(soup.body)) = soup.body]_vars
    /\ []((pc = "numbered") =>
             /\ tree = order_tree
             /\ Headings(soup.body) = Headings(source.body)
             /\ \A w \in Windows :
                   _collect_headers(soup, options, w[1], w[2])
                       = _collect_headers(source, options, w[1], w[2]))

\* a numbered document (markers inserted, a placeholder in the forest, a
\* heading skipped under an excluded one) that has a heading outside the
\* numbering window, so that another window gives another forest
C11_Witness ==
    /\ pc = "numbered"
    /\ soup # source
    /\ Placeholders(tree) # {}
    /\ \E k \in 1..Len(soup.body) : ~Seen(k)
    /\ \E w \in Windows :
          _collect_headers(soup, options, w[1], w[2]).nodes # tree.nodes

(* ---------------------------------------------------------------------- *)
(* C12                                                                     *)
(* ---------------------------------------------------------------------- *)

\* the nodes of a forest in depth-first pre-order, each with the 1-based
\* sibling indexes on the path from the top-level list to it
RECURSIVE PreorderPaths(_, _, _, _)
PreorderPaths(nodes, ids, j, prefix) ==
    IF j > Len(ids) THEN <<>>
    ELSE <<[node |-> ids[j], path |-> Append(prefix, j)]>>
             \o PreorderPaths(nodes, nodes[ids[j]].subheaders, 1, Append(prefix, j))
             \o PreorderPaths(nodes, ids, j + 1, prefix)

ForestPaths(t) == PreorderPaths(t.nodes, t.top_headers, 1, <<>>)

\* nesting distance from a top-level entry
DepthOf(entry) == Len(entry.path) - 1

\* C12: in the forest returned for window [s,e) a real node whose heading has
\* level L is at depth L - s (so a top-level entry is a level-s heading or a
\* placeholder), every node has depth < e - s, and the label inject_order
\* writes into a level-L heading has L - s + 1 components.
C12_DepthIsLevel ==
    [](pc \in {"returned", "numbered"} =>
        LET w == ForestPaths(tree)
        IN  \A j \in 1..Len(w) :
                LET k == tree.nodes[w[j].node].element
                IN  /\ DepthOf(w[j]) < stop_level - start_level
                    /\ k # 0 =>
                          /\ HeaderLevel(soup.body[k]) = start_level + DepthOf(w[j])
                          /\ pc = "numbered" =>
                                /\ MarkerText(soup.body, k) = Dotted(w[j].path) \o " "
                                /\ Len(w[j].path) =
                                      HeaderLevel(soup.body[k]) - start_level + 1)

\* a numbered document whose window starts at h2 and ends at h4: an h4 sits
\* at depth 2 below a placeholder and carries a label of three components
C12_Witness ==
    /\ pc = "numbered"
    /\ start_level = 1 /\ stop_level = 4
    /\ \E j \in 1..Len(ForestPaths(tree)) :
          LET e == ForestPaths(tree)[j]
              k == tree.nodes[e.node].element
          IN  /\ k # 0
              /\ soup.body[k].name = "h4"
              /\ DepthOf(e) = 2
              /\ MarkerText(soup.body, k) = "1.1.1 "
    /\ Placeholders(tree) # {}

(* ---------------------------------------------------------------------- *)
(* C13                                                                     *)
(* ---------------------------------------------------------------------- *)

\* the nodes below node n
Descendants(t, n) == Preorder(t.nodes, t.nodes[n].subheaders)

HasRealDescendant(t, n) ==
    LET d == Descendants(t, n)
    IN  \E j \in 1..Len(d) : t.nodes[d[j]].element # 0

\* C13: in the forest _collect_headers returns (and at every point of its
\* loop) each placeholder has at least one child and a real heading among
\* its descendants.
C13_PlaceholderNotLeaf ==
    [](pc \in {"loop", "returned"} =>
        LET w == ForestNodes(tree)
        IN  \A j \in 1..Len(w) :
                tree.nodes[w[j]].element = 0 =>
                    /\ tree.nodes[w[j]].subheaders # <<>>
                    /\ HasRealDescendant(tree, w[j]))

\* a returned forest with a top-level placeholder that has two children, the
\* first of them a placeholder too
C13_Witness ==
    /\ pc = "returned"
    /\ Len(tree.top_headers) >= 1
    /\ LET top == tree.nodes[tree.top_headers[1]]
       IN  /\ top.element = 0
           /\ Len(top.subheaders) = 2
           /\ tree.nodes[top.subheaders[1]].element = 0
           /\ tree.nodes[top.subheaders[2]].element # 0
           /\ HasRealDescendant(tree, top.subheaders[1])

(* ---------------------------------------------------------------------- *)
(* C14                                                                     *)
(* ---------------------------------------------------------------------- *)

IsPrefix(p, q) == Len(p) < Len(q) /\ SubSeq(q, 1, Len(p)) = p

IsPlaceholderAt(t, entry) == t.nodes[entry.node].element = 0

\* has the entry a real node among its ancestors
HasRealAncestor(t, w, entry) ==
    \E a \in 1..Len(w) :
        IsPrefix(w[a].path, entry.path) /\ ~IsPlaceholderAt(t, w[a])

\* is there, below the entry, a real node whose heading lies deeper than level
HasDeeperHeading(t, w, entry, level) ==
    \E d \in 1..Len(w) :
        /\ IsPrefix(entry.path, w[d].path)
        /\ ~IsPlaceholderAt(t, w[d])
        /\ HeaderLevel(soup.body[t.nodes[w[d].node].element]) > level

\* C14 as stated: each placeholder stands for a level strictly between s and
\* the level of an included heading and has a real heading among its
\* ancestors; no top-level entry is a placeholder.
C14_PlaceholderBelowHeading ==
    pc = "returned" =>
        LET w == ForestPaths(tree)
        IN  \A j \in 1..Len(w) :
                IsPlaceholderAt(tree, w[j]) =>
                    /\ start_level < start_level + DepthOf(w[j])
                    /\ HasDeeperHeading(tree, w, w[j], start_level + DepthOf(w[j]))
                    /\ HasRealAncestor(tree, w, w[j])

\* the headings of the window that the loop keeps, by body position
KeptHeadings ==
    {k \in 1..Len(soup.body) : Seen(k) /\ ~HasExcludedAncestor(k)}

FirstKept == CHOOSE k \in KeptHeadings : \A m \in KeptHeadings : k <= m

\* C14: each placeholder stands for a level from s on, below the
\* level of an included heading under it; the first top-level entry is a
\* placeholder exactly when the first kept heading of the window lies deeper
\* than s, and no other top-level entry is one; a placeholder under a real
\* top-level entry has a real heading among its ancestors.
C14_PlaceholderFromStart ==
    [](pc = "returned" =>
        LET w == ForestPaths(tree)
        IN  /\ \A j \in 1..Len(w) :
                  IsPlaceholderAt(tree, w[j]) =>
                      /\ HasDeeperHeading(tree, w, w[j],
                                          start_level + DepthOf(w[j]))
                      /\ (DepthOf(w[j]) > 0
                            /\ tree.nodes[tree.top_headers[w[j].path[1]]].element # 0)
                           => HasRealAncestor(tree, w, w[j])
            /\ \A j \in 2..Len(tree.top_headers) :
                  tree.nodes[tree.top_headers[j]].element # 0
            /\ KeptHeadings # {} =>
                  /\ tree.top_headers # <<>>
                  /\ (tree.nodes[tree.top_headers[1]].element = 0)
                        <=> (HeaderLevel(soup.body[FirstKept]) > start_level)
            /\ KeptHeadings = {} => tree.top_headers = <<>>)

\* a returned forest whose first top-level entry is a placeholder and whose
\* second is a heading with a placeholder below it
C14_Witness ==
    /\ pc = "returned"
    /\ Len(tree.top_headers) = 2
    /\ tree.nodes[tree.top_headers[1]].element = 0
    /\ LET second == tree.nodes[tree.top_headers[2]]
       IN  /\ second.element # 0
           /\ Len(second.subheaders) = 1
           /\ tree.nodes[second.subheaders[1]].element = 0

(* ---------------------------------------------------------------------- *)
(* C15                                                                     *)
(* ---------------------------------------------------------------------- *)

\* the subsequence of the real entries of a walk
RECURSIVE RealEntries(_, _)
RealEntries(t, w) ==
    IF w = <<>> THEN <<>>
    ELSE (IF IsPlaceholderAt(t, Head(w)) THEN <<>> ELSE <<Head(w)>>)
             \o RealEntries(t, Tail(w))

\* body positions of a set of headings in document order
RECURSIVE InOrder(_, _)
InOrder(ks, k) ==
    IF k > Len(soup.body) THEN <<>>
    ELSE (IF k \in ks THEN <<k>> ELSE <<>>) \o InOrder(ks, k + 1)

\* lexicographic order of index paths, component by component, a proper
\* prefix first
RECURSIVE LexLess(_, _)
LexLess(p, q) ==
    IF q = <<>> THEN FALSE
    ELSE IF p = <<>> THEN TRUE
    ELSE IF Head(p) # Head(q) THEN Head(p) < Head(q)
    ELSE LexLess(Tail(p), Tail(q))

\* C15: the depth-first pre-order walk of the returned forest, restricted to
\* real nodes, lists the kept headings of the window in their document
\* order; after inject_order the labels of the headings, read by components,
\* increase lexicographically along the document.
C15_DocumentOrder ==
    [](pc \in {"returned", "numbered"} =>
        LET r == RealEntries(tree, ForestPaths(tree))
            el == [j \in 1..Len(r) |-> tree.nodes[r[j].node].element]
        IN  /\ el = InOrder(KeptHeadings, 1)
            /\ pc = "numbered" =>
                  /\ \A a \in 1..Len(r) :
                        MarkerText(soup.body, el[a]) = Dotted(r[a].path) \o " "
                  /\ \A a, b \in 1..Len(r) :
                        el[a] < el[b] => LexLess(r[a].path, r[b].path))

\* a numbered document of three headings, the second two levels below the
\* first and the third one level below it: labels 1, 1.1.1 and 1.2
C15_Witness ==
    /\ pc = "numbered"
    /\ Len(soup.body) = 3
    /\ KeptHeadings = {1, 2, 3}
    /\ MarkerText(soup.body, 1) = "1 "
    /\ MarkerText(soup.body, 2) = "1.1.1 "
    /\ MarkerText(soup.body, 3) = "1.2 "

(* ---------------------------------------------------------------------- *)
(* C16                                                                     *)
(* ---------------------------------------------------------------------- *)

\* a numbering marker: <span class="pdf-order"> holding one string
IsMarker(el) ==
    /\ el.name = "span" /\ el.cls = "pdf-order"
    /\ Len(el.contents) = 1
    /\ el.contents[1].name = ""

\* the heading with one marker put in front of what it held
IsNumbered(after, before) ==
    /\ Len(after.contents) = Len(before.contents) + 1
    /\ IsMarker(after.contents[1])
    /\ after = [before EXCEPT !.contents = <<after.contents[1]>> \o @]

\* C16: when _inject_heading_order has returned, the headings that are real
\* nodes of the numbering forest hold one marker in front of their former
\* content and are otherwise as they were; every other heading is unchanged;
\* no heading is added, removed or given another id; the forest is the one
\* collected; with ordered_chapter_level <= start level the document is
\* unchanged and nothing is collected.
C16_InjectionFrame ==
    pc = "injected" =>
        /\ Len(soup.body) = Len(source.body)
        /\ \A k \in 1..Len(source.body) :
              /\ soup.body[k].id = source.body[k].id
              /\ soup.body[k].name = source.body[k].name
              /\ IF IsRealIn(order_tree, k)
                 THEN IsNumbered(soup.body[k], source.body[k])
                 ELSE soup.body[k] = source.body[k]
        /\ OrderEnabled =>
              order_tree = _collect_headers(source, options, start_level,
                                            stop_level)
        /\ ~OrderEnabled =>
              /\ soup = source
              /\ order_tree = NoForest
              /\ calls = <<>>

\* order injection has numbered a heading and has left alone a heading of
\* the window, holding links, that is skipped under an excluded one
C16_Witness ==
    /\ pc = "injected"
    /\ OrderEnabled
    /\ \E k \in 1..Len(source.body) :
          /\ IsRealIn(order_tree, k)
          /\ IsNumbered(soup.body[k], source.body[k])
    /\ \E k \in 1..Len(source.body) :
          /\ InWindow(source.body[k], start_level, stop_level)
          /\ ~IsRealIn(order_tree, k)
          /\ Len(source.body[k].contents) = 3
          /\ soup.body[k] = source.body[k]

(* ---------------------------------------------------------------------- *)
(* C17                                                                     *)
(* ---------------------------------------------------------------------- *)

\* the body without the TOC container
BodyBelowToc ==
    IF HasTocArticle(soup.body) THEN Tail(soup.body) ELSE soup.body

\* heading k as step 2 found it
HeadingBeforeToc(k) == [source.body[k] EXCEPT !.contents = ContentBeforeToc(k)]

\* C17: after step 2 every heading of the document is as step 2 found it
\* (same inline fragments, the content of a link inside a heading included),
\* and the one change to the document is the TOC container inserted as the
\* first child of the body.
C17_TocStageFrame ==
    pc \notin {"start", "injected"} =>
        /\ Len(BodyBelowToc) = Len(source.body)
        /\ \A k \in 1..Len(source.body) : BodyBelowToc[k] = HeadingBeforeToc(k)
        /\ (pc = "done" /\ TocEnabled) => HasTocArticle(soup.body)

(* ---------------------------------------------------------------------- *)
(* C18                                                                     *)
(* ---------------------------------------------------------------------- *)

HasLink(contents) == \E j \in 1..Len(contents) : contents[j].name = "a"

\* C18: for every heading of the TOC forest that holds a link among its
\* inline fragments, whatever the number of fragments inside the link,
\* make_link ends without error and the TOC link holds, in place of the inner
\* link, all the fragments of the inner link in order; no TOC link has a link
\* as a direct child.
C18_InnerLinkUnwrapped ==
    (pc \notin {"start", "injected"} /\ TocEnabled) =>
        /\ pc # "IndexError"
        /\ pc = "done" =>
              \A n \in RealNodes(tree) :
                  LET k == tree.nodes[n].element
                      a == ItemAt(TocList, PathTo(tree, n)).contents[1]
                  IN  HasLink(source.body[k].contents) =>
                          /\ a.name = "a"
                          /\ ~HasLink(a.contents)
                          /\ a.contents = Unwrapped(ContentBeforeToc(k))

====
